---- MODULE Spec2Model ----
(***************************************************************************)
(* Model of web-scraper.py: get_links / get_single_vote (the Fetcher),     *)
(* filter_json_to_frame (the Record Table Builder),                        *)
(* create_vertex_and_chord_lists (the Graph List Builder) and              *)
(* plot_chord_chart (the Renderer), run once, in that order, by __main__.  *)
(*                                                                         *)
(* Strings whose characters the code inspects (hrefs, legislator labels)   *)
(* are sequences of character codes, so that startswith, partition,        *)
(* isdigit, int() and the string comparison of sorted() are computed.      *)
(***************************************************************************)
EXTENDS Integers, Sequences, FiniteSets, TLC

VARIABLES
    pc,            \* the statement of __main__ / of the running function
    tags,          \* get_links: hrefs of the anchors of the index page
    links,         \* get_links: the hrefs that start with 's'
    votes,         \* get_links: JSON values loaded so far
    requested,     \* hrefs whose data.json has been requested, in order
    d_frame,       \* the DataFrame: rows [Sponsor, Cosponsor, Bill]
    li,            \* create_vertex_and_chord_lists: flattened co-sponsors
    y_labels,      \* sorted sponsor labels
    x_labels,      \* sorted co-sponsor labels
    union_labels,  \* sorted union of both
    vert_list,     \* [{'group': 0, 'name': label}, ...]
    chord_list,    \* [{"source": .., "target": .., "value": 1}, ...]
    i, j,          \* position of the two nested loops (row, co-sponsor)
    v_list, e_list,\* __main__: the pair returned by the builder
    returned,      \* every pair the builder has returned, call by call
    written,       \* chord_from_df.html has been written
    error,         \* "none", or the exception that ended the run
    stages         \* the functions __main__ has called, in call order

vars == << pc, tags, links, votes, requested, d_frame, li, y_labels, x_labels,
           union_labels, vert_list, chord_list, i, j, v_list, e_list,
           returned, written, error, stages >>

(***************************************************************************)
(* Bounds of the model.                                                    *)
(***************************************************************************)
MaxTags == 12          \* anchors on the index page
MaxTableLabels == 4    \* label occurrences (sponsors + co-sponsors) in a table
MaxCalls == 2          \* calls of the builder on one table

(***************************************************************************)
(* Program constants.                                                      *)
(***************************************************************************)
LinkLimit == 10        \* links[:10]
SenatePrefix == 115    \* 's'
Space == 32            \* ' '

(***************************************************************************)
(* Strings.                                                                *)
(***************************************************************************)
IsDigit(c) == c \in 48..57

\* str.startswith for a one-character prefix
StartsWith(s, c) == Len(s) > 0 /\ s[1] = c

\* item.partition(' ')[0]: the text before the first space, or all of it
Partition0(item) ==
    IF \E k \in 1..Len(item) : item[k] = Space
    THEN LET first == CHOOSE k \in 1..Len(item) :
                          /\ item[k] = Space
                          /\ \A m \in 1..(k - 1) : item[m] # Space
         IN  SubSeq(item, 1, first - 1)
    ELSE item

\* int(s) succeeds: s is made of decimal digits (no label of the model holds
\* another literal that int() accepts)
IsIntLiteral(s) == Len(s) > 0 /\ \A k \in 1..Len(s) : IsDigit(s[k])

RECURSIVE IntOf(_)
IntOf(s) ==
    IF Len(s) = 0 THEN 0
    ELSE 10 * IntOf(SubSeq(s, 1, Len(s) - 1)) + (s[Len(s)] - 48)

\* Python's < on str: by code point, a proper prefix first
StrLess(a, b) ==
    \E k \in 1..(Len(b)) :
        /\ \A m \in 1..(k - 1) : m <= Len(a) /\ a[m] = b[m]
        /\ k - 1 <= Len(a)
        /\ (k > Len(a) \/ a[k] < b[k])

RECURSIVE Dec(_)
Dec(n) == IF n < 10 THEN << 48 + n >> ELSE Dec(n \div 10) \o << 48 + (n % 10) >>

Take(s, n) == SubSeq(s, 1, IF Len(s) < n THEN Len(s) ELSE n)

Range(s) == { s[k] : k \in 1..Len(s) }

(***************************************************************************)
(* The sort key of lines 68-69, 72-73 and 76-77:                           *)
(*   (int(item.partition(' ')[0]) if item[0].isdigit() else float("inf"),  *)
(*    item)                                                                *)
(***************************************************************************)
\* the exception the key raises for item, or "none"
SortKeyRaises(item) ==
    IF Len(item) = 0 THEN "IndexError"                    \* item[0]
    ELSE IF IsDigit(item[1]) /\ ~IsIntLiteral(Partition0(item))
         THEN "ValueError"                                \* int("3rd")
         ELSE "none"

KeyIsInf(item) == ~IsDigit(item[1])

KeyInt(item) == IntOf(Partition0(item))

\* mutant: the labels compared as plain text
SortKeyLess_Text(a, b) == StrLess(a, b)

\* tuple comparison of the keys of a and b
SortKeyLess(a, b) ==
    IF KeyIsInf(a) /\ KeyIsInf(b) THEN StrLess(a, b)
    ELSE IF KeyIsInf(a) THEN FALSE
    ELSE IF KeyIsInf(b) THEN TRUE
    ELSE \/ KeyInt(a) < KeyInt(b)
         \/ (KeyInt(a) = KeyInt(b) /\ StrLess(a, b))

\* sorted(set(...), key=...) for a set on which the key does not raise
RECURSIVE Sorted(_)
Sorted(S) ==
    IF S = {} THEN << >>
    ELSE LET least == CHOOSE x \in S : \A y \in S \ {x} : SortKeyLess(x, y)
         IN  << least >> \o Sorted(S \ {least})

\* the first exception sorted() raises on S, or "none"
SortError(S) ==
    IF \E x \in S : SortKeyRaises(x) = "IndexError" THEN "IndexError"
    ELSE IF \E x \in S : SortKeyRaises(x) = "ValueError" THEN "ValueError"
    ELSE "none"

(***************************************************************************)
(* create_vertex_and_chord_lists, its pure parts.                          *)
(***************************************************************************)
RECURSIVE Flatten(_)
\* li.extend(en) for en in d_frame["Cosponsor"]
Flatten(rows) ==
    IF rows = << >> THEN << >>
    ELSE Head(rows).Cosponsor \o Flatten(Tail(rows))

SponsorColumn(rows) == [k \in 1..Len(rows) |-> rows[k].Sponsor]

\* mutant: the union built from the co-sponsors alone
UnionLabels_CosponsorsOnly(x, y) == Sorted(Range(x))

\* sorted(set(x_labels + y_labels), key=...)
UnionLabels(x, y) == Sorted(Range(x \o y))

\* [{'group': 0, 'name': label} for label in union_labels]
VertList(labels) ==
    [k \in 1..Len(labels) |-> [group |-> 0, name |-> labels[k]]]

\* mutant: a position counted from one
IndexOf_OneBased(s, x) ==
    IF x \in Range(s)
    THEN CHOOSE k \in 1..Len(s) : s[k] = x /\ \A m \in 1..(k - 1) : s[m] # x
    ELSE -1

\* list.index(x): the position of the first x counted from zero; -1 stands
\* for the ValueError of an absent x
IndexOf(s, x) ==
    IF x \in Range(s)
    THEN (CHOOSE k \in 1..Len(s) : s[k] = x /\ \A m \in 1..(k - 1) : s[m] # x) - 1
    ELSE -1

\* mutant: source and target exchanged
Chord_Swapped(source_ind, target_ind) ==
    [source |-> target_ind, target |-> source_ind, value |-> 1]

\* {"source": source_ind, "target": target_ind, "value": 1}
Chord(source_ind, target_ind) ==
    [source |-> source_ind, target |-> target_ind, value |-> 1]

\* mutant: a pair already present is not appended again
AppendedChords_Dedup(chords, c) ==
    IF c \in Range(chords) THEN chords ELSE Append(chords, c)

\* chord_list.append(...)
AppendedChords(chords, c) == Append(chords, c)

\* mutant: the list of an earlier call is kept
NewChordList_Kept(previous) == previous

\* chord_list = []
NewChordList(previous) == << >>

\* the loops of lines 86 and 91: the next (row, co-sponsor) position at or
\* after (r, c) that holds a co-sponsor; r = Len(rows) + 1 when none is left
RECURSIVE LoopPosition(_, _, _)
LoopPosition(rows, r, c) ==
    IF r > Len(rows) THEN << Len(rows) + 1, 1 >>
    ELSE IF c <= Len(rows[r].Cosponsor) THEN << r, c >>
    ELSE LoopPosition(rows, r + 1, 1)

(***************************************************************************)
(* The environment: legislator labels, the documents of the remote site    *)
(* and the index page.                                                     *)
(***************************************************************************)
Label3S   == << 51, 32, 83 >>              \* "3 S"
Label10J  == << 49, 48, 32, 74 >>          \* "10 J"
LabelA    == << 65 >>                      \* "A"
LabelAb   == << 65, 98 >>                  \* "Ab"
Label3rdS == << 51, 114, 100, 32, 83 >>    \* "3rd S"

Labels == { Label3S, Label10J, LabelA, LabelAb, Label3rdS }

Names(labels) == [k \in 1..Len(labels) |-> [name |-> labels[k]]]

\* data.json of senate bill n.  Bill 4 lacks "bill_id"; the sponsor of bill 6
\* carries a label that starts with a digit and is no number.
Document(n) ==
    IF n = 4
    THEN [sponsor |-> [name |-> LabelA], cosponsors |-> Names(<< Label3S >>)]
    ELSE IF n = 6
    THEN [sponsor |-> [name |-> Label3rdS], cosponsors |-> << >>, bill_id |-> n]
    ELSE IF n % 4 = 1
    THEN [sponsor |-> [name |-> Label3S], cosponsors |-> Names(<< Label10J >>),
          bill_id |-> n]
    ELSE IF n % 4 = 2
    THEN [sponsor |-> [name |-> Label10J],
          cosponsors |-> Names(<< Label3S, LabelA >>), bill_id |-> n]
    ELSE IF n % 4 = 3
    THEN [sponsor |-> [name |-> LabelAb], cosponsors |-> << >>, bill_id |-> n]
    ELSE [sponsor |-> [name |-> LabelA],
          cosponsors |-> Names(<< Label10J, Label10J >>), bill_id |-> n]

\* the href of the directory of senate bill n: "s<n>/"
SenateHref(n) == << SenatePrefix >> \o Dec(n) \o << 47 >>

\* another anchor of the index page: "hres<n>/"
OtherHref(n) == << 104, 114, 101, 115 >> \o Dec(n) \o << 47 >>

\* index pages: the k-th anchor leads to senate bill k or is another link
Pages ==
    UNION { { [k \in 1..n |-> IF k \in S THEN SenateHref(k) ELSE OtherHref(k)] :
              S \in SUBSET (1..n) } : n \in 0..MaxTags }

\* what requests.get(url) / requests.get(url).text can bring for the index
\* page and for one record
IndexResponses ==
    { [kind |-> "connection_error"] } \cup
    { [kind |-> "page", hrefs |-> p] : p \in Pages }

BillOf(href) == CHOOSE n \in 1..MaxTags : SenateHref(n) = href

RecordResponses(href) ==
    { [kind |-> "connection_error"],
      [kind |-> "not_json"],
      [kind |-> "document", json |-> Document(BillOf(href))] }

\* record tables with at most n label occurrences
RECURSIVE RowsUpTo(_)
RowsUpTo(n) ==
    IF n = 0 THEN { << >> }
    ELSE { << >> } \cup
         UNION { { << [Sponsor |-> s, Cosponsor |-> c] >> \o t :
                     s \in Labels, c \in [1..k -> Labels],
                     t \in RowsUpTo(n - 1 - k) } : k \in 0..(n - 1) }

Tables ==
    { [k \in 1..Len(t) |->
          [Sponsor |-> t[k].Sponsor, Cosponsor |-> t[k].Cosponsor, Bill |-> k]] :
      t \in RowsUpTo(MaxTableLabels) }

(***************************************************************************)
(* __main__: the order of the calls, and an uncaught exception.            *)
(***************************************************************************)
\* mutant: the table builder is left out
NextCall_NoTable(f) ==
    CASE f = "get_links" -> "create_vertex_and_chord_lists"
      [] f = "filter_json_to_frame" -> "create_vertex_and_chord_lists"
      [] f = "create_vertex_and_chord_lists" -> "plot_chord_chart"
      [] OTHER -> "done"

\* the call that follows the return of f
NextCall(f) ==
    CASE f = "get_links" -> "filter_json_to_frame"
      [] f = "filter_json_to_frame" -> "create_vertex_and_chord_lists"
      [] f = "create_vertex_and_chord_lists" -> "plot_chord_chart"
      [] OTHER -> "done"

\* mutant: the exception is caught and the statement goes on
Raise_Caught(e) == pc' = pc /\ error' = error

\* no try/except anywhere: the exception ends the run
Raise(e) == pc' = "aborted" /\ error' = e

(***************************************************************************)
(* get_links and get_single_vote.                                          *)
(***************************************************************************)
IsSenateLink(x) == StartsWith(x, SenatePrefix)

\* the loop of lines 23-26
CandidateLinks(t) == SelectSeq(t, IsSenateLink)

\* mutant: one link more
LinksToFetch_OneMore(l) == Take(l, LinkLimit + 1)

\* links[:10]
LinksToFetch(l) == Take(l, LinkLimit)

\* lines 12-26: the index page is requested and its anchors are filtered
GetLinks ==
    /\ pc = "get_links"
    /\ \E resp \in IndexResponses :
        /\ stages' = Append(stages, "get_links")
        /\ IF resp.kind = "page"
           THEN /\ tags' = resp.hrefs
                /\ links' = CandidateLinks(resp.hrefs)
                /\ pc' = "get_single_vote"
                /\ error' = error
           ELSE /\ Raise("ConnectionError")
                /\ UNCHANGED << tags, links >>
    /\ UNCHANGED << votes, requested, d_frame, li, y_labels, x_labels,
                    union_labels, vert_list, chord_list, i, j, v_list, e_list,
                    returned, written >>

\* one get_single_vote(link) of the list comprehension of line 30
GetSingleVote ==
    /\ pc = "get_single_vote"
    /\ Len(votes) < Len(LinksToFetch(links))
    /\ LET vote_href == LinksToFetch(links)[Len(votes) + 1]
       IN  /\ requested' = Append(requested, vote_href)
           /\ \E resp \in RecordResponses(vote_href) :
                IF resp.kind = "document"
                THEN /\ votes' = Append(votes, resp.json)
                     /\ UNCHANGED << pc, error >>
                ELSE /\ Raise(IF resp.kind = "not_json" THEN "JSONDecodeError"
                                                        ELSE "ConnectionError")
                     /\ votes' = votes
    /\ UNCHANGED << tags, links, d_frame, li, y_labels, x_labels, union_labels,
                    vert_list, chord_list, i, j, v_list, e_list, returned,
                    written, stages >>

\* line 32: return votes
ReturnVotes ==
    /\ pc = "get_single_vote"
    /\ Len(votes) = Len(LinksToFetch(links))
    /\ pc' = NextCall("get_links")
    /\ UNCHANGED << tags, links, votes, requested, d_frame, li, y_labels,
                    x_labels, union_labels, vert_list, chord_list, i, j,
                    v_list, e_list, returned, written, error, stages >>

(***************************************************************************)
(* filter_json_to_frame.                                                   *)
(***************************************************************************)
\* r["sponsor"]["name"], r["cosponsors"][i]["name"] and r["bill_id"] exist
HasFields(r) ==
    /\ { "sponsor", "cosponsors", "bill_id" } \subseteq DOMAIN r
    /\ "name" \in DOMAIN r.sponsor
    /\ \A k \in 1..Len(r.cosponsors) : "name" \in DOMAIN r.cosponsors[k]

Row(r) ==
    [Sponsor |-> r.sponsor.name,
     Cosponsor |-> [k \in 1..Len(r.cosponsors) |-> r.cosponsors[k].name],
     Bill |-> r.bill_id]

\* lines 48-57
FilterJsonToFrame ==
    /\ pc = "filter_json_to_frame"
    /\ stages' = Append(stages, "filter_json_to_frame")
    /\ IF \A k \in 1..Len(votes) : HasFields(votes[k])
       THEN /\ d_frame' = [k \in 1..Len(votes) |-> Row(votes[k])]
            /\ pc' = NextCall("filter_json_to_frame")
            /\ error' = error
       ELSE /\ Raise("KeyError")
            /\ d_frame' = d_frame
    /\ UNCHANGED << tags, links, votes, requested, li, y_labels, x_labels,
                    union_labels, vert_list, chord_list, i, j, v_list, e_list,
                    returned, written >>

(***************************************************************************)
(* create_vertex_and_chord_lists.                                          *)
(***************************************************************************)
\* lines 62-83: the label lists, the vertex list and the empty chord list
BuildVertexList ==
    /\ pc = "create_vertex_and_chord_lists"
    /\ stages' = Append(stages, "create_vertex_and_chord_lists")
    /\ li' = Flatten(d_frame)
    /\ LET sponsors == Range(SponsorColumn(d_frame))
           cosponsors == Range(Flatten(d_frame))
           raised == IF SortError(sponsors) # "none" THEN SortError(sponsors)
                     ELSE SortError(cosponsors)
       IN  IF raised = "none"
           THEN /\ y_labels' = Sorted(sponsors)
                /\ x_labels' = Sorted(cosponsors)
                /\ union_labels' = UnionLabels(Sorted(cosponsors), Sorted(sponsors))
                /\ vert_list' =
                     VertList(UnionLabels(Sorted(cosponsors), Sorted(sponsors)))
                /\ chord_list' = NewChordList(chord_list)
                /\ i' = LoopPosition(d_frame, 1, 1)[1]
                /\ j' = LoopPosition(d_frame, 1, 1)[2]
                /\ pc' = "chord_loop"
                /\ error' = error
           ELSE /\ Raise(raised)
                /\ UNCHANGED << y_labels, x_labels, union_labels, vert_list,
                                chord_list, i, j >>
    /\ UNCHANGED << tags, links, votes, requested, d_frame, v_list, e_list,
                    returned, written >>

\* lines 86-96: one pass of the inner loop
AppendChord ==
    /\ pc = "chord_loop"
    /\ i <= Len(d_frame)
    /\ LET y_lookup == d_frame[i].Sponsor
           x_lookup == d_frame[i].Cosponsor[j]
           source_ind == IndexOf(union_labels, y_lookup)
           target_ind == IndexOf(union_labels, x_lookup)
       IN  IF y_lookup \in Range(union_labels) /\ x_lookup \in Range(union_labels)
           THEN /\ chord_list' =
                     AppendedChords(chord_list, Chord(source_ind, target_ind))
                /\ i' = LoopPosition(d_frame, i, j + 1)[1]
                /\ j' = LoopPosition(d_frame, i, j + 1)[2]
                /\ UNCHANGED << pc, error >>
           ELSE /\ Raise("ValueError")
                /\ UNCHANGED << chord_list, i, j >>
    /\ UNCHANGED << tags, links, votes, requested, d_frame, li, y_labels,
                    x_labels, union_labels, vert_list, v_list, e_list,
                    returned, written, stages >>

\* line 98 and the assignment of line 135
ReturnLists ==
    /\ pc = "chord_loop"
    /\ i > Len(d_frame)
    /\ v_list' = vert_list
    /\ e_list' = chord_list
    /\ returned' = Append(returned, << vert_list, chord_list >>)
    /\ pc' = NextCall("create_vertex_and_chord_lists")
    /\ UNCHANGED << tags, links, votes, requested, d_frame, li, y_labels,
                    x_labels, union_labels, vert_list, chord_list, i, j,
                    written, error, stages >>

\* the builder called once more on the same DataFrame
CallAgain ==
    /\ pc = "plot_chord_chart"
    /\ Len(returned) < MaxCalls
    /\ pc' = "create_vertex_and_chord_lists"
    /\ UNCHANGED << tags, links, votes, requested, d_frame, li, y_labels,
                    x_labels, union_labels, vert_list, chord_list, i, j,
                    v_list, e_list, returned, written, error, stages >>

(***************************************************************************)
(* plot_chord_chart.                                                       *)
(***************************************************************************)
\* lines 101-119: the merges, Chord(), output_file() and show() either all
\* succeed, and the file is written, or one of them raises
PlotChordChart ==
    /\ pc = "plot_chord_chart"
    /\ stages' = Append(stages, "plot_chord_chart")
    /\ \E outcome \in { "shown", "raised" } :
        IF outcome = "shown"
        THEN /\ written' = TRUE
             /\ pc' = NextCall("plot_chord_chart")
             /\ error' = error
        ELSE /\ Raise("RenderError")
             /\ written' = written
    /\ UNCHANGED << tags, links, votes, requested, d_frame, li, y_labels,
                    x_labels, union_labels, vert_list, chord_list, i, j,
                    v_list, e_list, returned >>

(***************************************************************************)
(* Specifications.                                                         *)
(***************************************************************************)
Unset ==
    /\ tags = << >> /\ links = << >> /\ votes = << >> /\ requested = << >>
    /\ li = << >> /\ y_labels = << >> /\ x_labels = << >>
    /\ union_labels = << >> /\ vert_list = << >> /\ chord_list = << >>
    /\ i = 0 /\ j = 0 /\ v_list = << >> /\ e_list = << >>
    /\ returned = << >> /\ written = FALSE /\ error = "none"

\* the start of __main__
Init ==
    /\ Unset
    /\ pc = "get_links"
    /\ d_frame = << >>
    /\ stages = << >>

Next ==
    \/ GetLinks
    \/ GetSingleVote
    \/ ReturnVotes
    \/ FilterJsonToFrame
    \/ BuildVertexList
    \/ AppendChord
    \/ ReturnLists
    \/ PlotChordChart

Spec == Init /\ [][Next]_vars

\* create_vertex_and_chord_lists about to be called on a record table
InitGraph ==
    /\ Unset
    /\ pc = "create_vertex_and_chord_lists"
    /\ d_frame \in Tables
    /\ stages = << "get_links", "filter_json_to_frame" >>

NextGraph ==
    \/ BuildVertexList
    \/ AppendChord
    \/ ReturnLists
    \/ CallAgain

SpecGraph == InitGraph /\ [][NextGraph]_vars

(***************************************************************************)
(* Notions of the specification, stated without the code's sort key.       *)
(***************************************************************************)
\* the builder has returned to its caller
Returned == pc = "plot_chord_chart" /\ returned # << >>

\* every sponsor and co-sponsor label of a table
TableLabels(rows) ==
    { rows[r].Sponsor : r \in 1..Len(rows) } \cup
    UNION { { rows[r].Cosponsor[c] : c \in 1..Len(rows[r].Cosponsor) } :
            r \in 1..Len(rows) }

\* the positions (row, co-sponsor) of a table
PairPositions(rows) ==
    UNION { { << r, c >> : c \in 1..Len(rows[r].Cosponsor) } : r \in 1..Len(rows) }

\* the (sponsor, co-sponsor) pairs of a table read row by row
RECURSIVE PairsOf(_)
PairsOf(rows) ==
    IF rows = << >> THEN << >>
    ELSE [c \in 1..Len(Head(rows).Cosponsor) |->
             << Head(rows).Sponsor, Head(rows).Cosponsor[c] >>]
         \o PairsOf(Tail(rows))

\* the text up to the first space is a number
NumericPrefixed(label) == IsIntLiteral(Partition0(label))

PrefixValue(label) == IntOf(Partition0(label))

\* the Label ordering rule: a may stand before b
RuleAllows(a, b) ==
    IF NumericPrefixed(a) /\ NumericPrefixed(b)
    THEN PrefixValue(a) <= PrefixValue(b)
    ELSE IF NumericPrefixed(a) THEN TRUE
    ELSE IF NumericPrefixed(b) THEN FALSE
    ELSE ~StrLess(b, a)

NamesOf(vertices) == [k \in 1..Len(vertices) |-> vertices[k].name]

IsPrefix(s, t) == Len(s) <= Len(t) /\ \A k \in 1..Len(s) : s[k] = t[k]

AllStages ==
    << "get_links", "filter_json_to_frame", "create_vertex_and_chord_lists",
       "plot_chord_chart" >>

(***************************************************************************)
(* Properties of create_vertex_and_chord_lists, under SpecGraph.           *)
(***************************************************************************)
\* C1: whenever the builder returns, the names of the vertex list are
\* exactly the labels of the table (sponsors and co-sponsors, a sponsor
\* without co-sponsors included), each exactly once, and every vertex has
\* group 0.
C1_VerticesAreTheLabels ==
    Returned =>
        /\ Range(NamesOf(v_list)) = TableLabels(d_frame)
        /\ \A l \in TableLabels(d_frame) :
              Cardinality({ k \in 1..Len(v_list) : v_list[k].name = l }) = 1
        /\ \A k \in 1..Len(v_list) : v_list[k].group = 0

\* a returned list with a label that occurs twice in the table and a
\* sponsor that has no co-sponsor and occurs nowhere else
C1_Witness ==
    /\ Returned
    /\ Len(v_list) >= 2
    /\ Len(v_list) < Len(d_frame) + Cardinality(PairPositions(d_frame))
    /\ \E r \in 1..Len(d_frame) :
          /\ d_frame[r].Cosponsor = << >>
          /\ \A q \in 1..Len(d_frame) :
                q # r => /\ d_frame[q].Sponsor # d_frame[r].Sponsor
                         /\ d_frame[r].Sponsor \notin Range(d_frame[q].Cosponsor)

\* C2: whenever the builder returns, the vertex list follows the Label
\* ordering rule: numeric-prefixed labels first, by ascending number, then
\* the other labels alphabetically; no vertex sorts after a later one.
C2_VerticesInRuleOrder ==
    Returned =>
        \A a, b \in 1..Len(v_list) :
            a < b => /\ RuleAllows(v_list[a].name, v_list[b].name)
                     /\ v_list[a].name # v_list[b].name

\* "3 S" before "10 J" before "A" before "Ab"
C2_Witness ==
    /\ Returned
    /\ NamesOf(v_list) = << Label3S, Label10J, LabelA, LabelAb >>

\* C3: a table with a label whose text up to the first space is no number
\* (one that starts with a digit included) does not make the builder fail,
\* and once it has returned that label stands after every numeric-prefixed
\* one.
C3_NonNumericPrefixSortsLast ==
    \A l \in TableLabels(d_frame) :
        ~NumericPrefixed(l) =>
            /\ error = "none"
            /\ Returned =>
                  \A a, b \in 1..Len(v_list) :
                      (v_list[a].name = l /\ NumericPrefixed(v_list[b].name))
                          => b < a

\* C4: every edge's source and target are indices of the vertex list, and
\* the labels looked up in union_labels are members of it, so that the
\* lookup never raises.
C4_EdgesIndexVertices ==
    /\ \A k \in 1..Len(chord_list) :
          /\ 0 <= chord_list[k].source /\ chord_list[k].source < Len(vert_list)
          /\ 0 <= chord_list[k].target /\ chord_list[k].target < Len(vert_list)
    /\ (pc = "chord_loop" /\ i <= Len(d_frame)) =>
          /\ d_frame[i].Sponsor \in Range(union_labels)
          /\ d_frame[i].Cosponsor[j] \in Range(union_labels)
    /\ Len(vert_list) = Len(union_labels)
    /\ ~(pc = "aborted" /\ union_labels # << >>)

\* edges that reach the first and the last vertex of three
C4_Witness ==
    /\ Returned
    /\ Len(v_list) = 3
    /\ \E k \in 1..Len(e_list) : e_list[k].source = 0
    /\ \E k \in 1..Len(e_list) : e_list[k].target = Len(v_list) - 1

\* C5: whenever the builder returns, there are as many edges as the
\* co-sponsor lists have entries, each of value 1, and for every pair of
\* labels as many edges as the pair occurs in the table.
C5_OneEdgePerPair ==
    Returned =>
        /\ Len(e_list) = Cardinality(PairPositions(d_frame))
        /\ \A k \in 1..Len(e_list) : e_list[k].value = 1
        /\ \A s, c \in TableLabels(d_frame) :
              Cardinality({ k \in 1..Len(e_list) :
                              /\ v_list[e_list[k].source + 1].name = s
                              /\ v_list[e_list[k].target + 1].name = c })
              = Cardinality({ p \in PairPositions(d_frame) :
                              /\ d_frame[p[1]].Sponsor = s
                              /\ d_frame[p[1]].Cosponsor[p[2]] = c })

\* a pair that occurs twice, and a row without co-sponsors
C5_Witness ==
    /\ Returned
    /\ \E p, q \in PairPositions(d_frame) :
          /\ p # q
          /\ d_frame[p[1]].Sponsor = d_frame[q[1]].Sponsor
          /\ d_frame[p[1]].Cosponsor[p[2]] = d_frame[q[1]].Cosponsor[q[2]]
    /\ \E r \in 1..Len(d_frame) : d_frame[r].Cosponsor = << >>

\* C6: the k-th edge is the k-th (sponsor, co-sponsor) pair of the table
\* read row by row: while the loop runs the edges are the first pairs, on
\* return all of them, and the names at source and target are the pair's.
C6_EdgesInTableOrder ==
    (pc = "chord_loop" \/ Returned) =>
        /\ Len(chord_list) <= Len(PairsOf(d_frame))
        /\ Returned => Len(chord_list) = Len(PairsOf(d_frame))
        /\ \A k \in 1..Len(chord_list) :
              /\ vert_list[chord_list[k].source + 1].name = PairsOf(d_frame)[k][1]
              /\ vert_list[chord_list[k].target + 1].name = PairsOf(d_frame)[k][2]

\* two rows with a co-sponsor each, the first edge from the later vertex
C6_Witness ==
    /\ Returned
    /\ Len(e_list) = 2
    /\ Cardinality({ p[1] : p \in PairPositions(d_frame) }) = 2
    /\ e_list[1].source > e_list[2].source
    /\ e_list[1].target # e_list[2].target

\* C9: every call of the builder on a table returns what the first call
\* returned, and no step of the builder changes the table.
C9_SameResultEveryCall ==
    /\ [](\A a, b \in 1..Len(returned) : returned[a] = returned[b])
    /\ [][d_frame' = d_frame]_vars

\* a second call has returned, with edges
C9_Witness ==
    /\ Len(returned) >= 2
    /\ returned[2][2] # << >>
    /\ Len(returned[2][1]) >= 2

(***************************************************************************)
(* Properties of the whole run, under Spec.                                *)
(***************************************************************************)
\* an anchor href that begins with 's'
IsCandidate(h) == Len(h) > 0 /\ h[1] = 115

Candidates == SelectSeq(tags, IsCandidate)

\* get_links has returned its votes
FetcherReturned == pc = "filter_json_to_frame" \/ Len(stages) >= 2

\* C7: the records requested are, in page order, candidates among the
\* first ten and nothing else; a request is answered before the next one is
\* made; and when the Fetcher returns, min(10, number of candidates) records
\* have been requested.
C7_FirstTenCandidatesInOrder ==
    /\ IsPrefix(requested, Take(Candidates, 10))
    /\ Len(requested) <= Len(votes) + 1
    /\ pc = "get_single_vote" => Len(requested) = Len(votes)
    /\ FetcherReturned =>
          Len(requested) = (IF Len(Candidates) < 10 THEN Len(Candidates) ELSE 10)

\* eleven candidates after another link, ten of them requested
C7_Witness ==
    /\ FetcherReturned
    /\ Len(Candidates) = 11
    /\ Len(requested) = 10
    /\ ~IsCandidate(tags[1])

\* C8: an exception in any stage ends the run: a request that loaded no
\* record, a record without an expected field and a label the sort key
\* rejects each leave the later stages unentered and their results unset,
\* nothing happens after the abort, and chord_from_df.html is written only
\* by a run whose four stages all completed.
C8_AnyErrorAbortsTheRun ==
    /\ [](/\ (error # "none") <=> (pc = "aborted")
          /\ written => (pc = "done" /\ error = "none" /\ stages = AllStages)
          /\ Len(requested) > Len(votes) =>
                (pc = "aborted" /\ Len(stages) = 1 /\ d_frame = << >>)
          /\ (\E k \in 1..Len(votes) : ~HasFields(votes[k])) =>
                /\ pc \in { "get_single_vote", "filter_json_to_frame", "aborted" }
                /\ Len(stages) <= 2
                /\ d_frame = << >> /\ vert_list = << >> /\ v_list = << >>
          /\ (\E l \in TableLabels(d_frame) : SortKeyRaises(l) # "none") =>
                /\ pc \in { "create_vertex_and_chord_lists", "aborted" }
                /\ Len(stages) <= 3
                /\ vert_list = << >> /\ v_list = << >> /\ e_list = << >>)
    /\ [][pc = "aborted" => UNCHANGED vars]_vars

\* the third record is no JSON: two votes are dropped, links stay unfetched
C8_Witness ==
    /\ pc = "aborted"
    /\ error = "JSONDecodeError"
    /\ Len(votes) = 2
    /\ Len(requested) = 3
    /\ Len(LinksToFetch(links)) > 3

\* C10: the stages are entered in the order Fetcher, Table Builder, Graph
\* List Builder, Renderer, each at most once; records are requested only
\* before the table is built, and all of them have been loaded by then;
\* the vertex list is complete before the first edge and no step that adds
\* an edge, nor any step of the edge loop, changes it.
C10_StagesInOrder ==
    /\ [](/\ IsPrefix(stages, AllStages)
          /\ pc = "done" => stages = AllStages
          /\ Len(stages) >= 2 =>
                /\ Len(votes) = Len(Take(links, 10))
                /\ Len(requested) = Len(votes)
          /\ chord_list # << >> =>
                Range(NamesOf(vert_list)) = TableLabels(d_frame))
    /\ [][/\ requested' # requested => stages = << "get_links" >>
          /\ chord_list' # chord_list =>
                (vert_list' = vert_list /\ union_labels' = union_labels)
          /\ pc = "chord_loop" => vert_list' = vert_list]_vars

\* a run that fetched, built a table with edges and wrote the chart
C10_Witness ==
    /\ pc = "done"
    /\ written
    /\ Len(requested) >= 3
    /\ Len(e_list) >= 2
    /\ Len(v_list) >= 3

====
